---- MODULE Spec2Model ----
(***************************************************************************)
(* Model of the voting-data client in src/api-call-example.py:             *)
(* get_voting_data (catalog fetch) and get_voting_summary (catalog fetch,  *)
(* search-term extraction, first-match scan, detail fetch, summary).      *)
(* Python strings are sequences of one-character strings; a JSON object   *)
(* is a record plus the set of keys it has; None / Optional is a          *)
(* sequence of length at most one.                                         *)
(***************************************************************************)
EXTENDS Integers, Sequences, FiniteSets, TLC

VARIABLES pc, op, proposal_name, requests, catalog, detail, search_term,
          matching_resource, result

vars == <<pc, op, proposal_name, requests, catalog, detail, search_term,
          matching_resource, result>>

\* ------------------------------------------------------------------ bounds
\* most single-quote characters in a generated proposal_name
MaxQuotes == 3
\* most entries in result.resources of a catalog response
MaxResources == 2
\* most entries in the vorlagenTitel list of a detail payload
MaxTitles == 2

\* ------------------------------------------------------- Python str methods
UpperLetters == <<"A", "B", "C", "D", "E", "F", "G", "H", "I", "J", "K", "L", "M",
                  "N", "O", "P", "Q", "R", "S", "T", "U", "V", "W", "X", "Y", "Z">>
LowerLetters == <<"a", "b", "c", "d", "e", "f", "g", "h", "i", "j", "k", "l", "m",
                  "n", "o", "p", "q", "r", "s", "t", "u", "v", "w", "x", "y", "z">>

Whitespace == {" ", "\t", "\n"}
Quote == "'"

LowerChar(c) ==
    IF \E i \in 1..26 : UpperLetters[i] = c
    THEN LowerLetters[CHOOSE i \in 1..26 : UpperLetters[i] = c]
    ELSE c

\* str.lower()
Lower(s) == [i \in 1..Len(s) |-> LowerChar(s[i])]

RECURSIVE LStrip(_)
LStrip(s) ==
    IF s # <<>> /\ Head(s) \in Whitespace THEN LStrip(Tail(s)) ELSE s

RECURSIVE RStrip(_)
RStrip(s) ==
    IF s # <<>> /\ s[Len(s)] \in Whitespace
    THEN RStrip(SubSeq(s, 1, Len(s) - 1))
    ELSE s

\* str.strip()
Strip(s) == RStrip(LStrip(s))

StartsWith(s, p) == Len(p) <= Len(s) /\ SubSeq(s, 1, Len(p)) = p

\* needle in haystack
RECURSIVE Contains(_, _)
Contains(hay, needle) ==
    \/ StartsWith(hay, needle)
    \/ hay # <<>> /\ Contains(Tail(hay), needle)

\* str.replace(old, ""), old non-empty: left-to-right, non-overlapping
RECURSIVE Remove(_, _)
Remove(s, old) ==
    IF Len(s) < Len(old) THEN s
    ELSE IF StartsWith(s, old) THEN Remove(SubSeq(s, Len(old) + 1, Len(s)), old)
    ELSE <<Head(s)>> \o Remove(Tail(s), old)

\* str.split(sep) with a one-character separator: always at least one part
RECURSIVE SplitFrom(_, _, _)
SplitFrom(s, sep, cur) ==
    IF s = <<>> THEN <<cur>>
    ELSE IF Head(s) = sep THEN <<cur>> \o SplitFrom(Tail(s), sep, <<>>)
    ELSE SplitFrom(Tail(s), sep, Append(cur, Head(s)))

Split(s, sep) == SplitFrom(s, sep, <<>>)

\* ------------------------------------------------------ search-term literals
FederalProposals ==
    <<"f", "e", "d", "e", "r", "a", "l", " ", "p", "r", "o", "p", "o", "s", "a", "l", "s", ":">>

\* ------------------------------------------------------------- exceptions
\* An outcome of a block of code: a value, or a raised exception.
Ok(v) == [raised |-> FALSE, exc |-> "", msg |-> "", value |-> v]
Raise(cls, m, v) == [raised |-> TRUE, exc |-> cls, msg |-> m, value |-> v]

\* the extraction failing with IndexError unless a closing quote follows
ExtractWithoutIndexCheck(name) ==
    IF Quote \in {name[i] : i \in 1..Len(name)}
    THEN IF Len(Split(name, Quote)) < 3
         THEN Raise("IndexError", "list index out of range", <<>>)
         ELSE Ok(Strip(Lower(Split(name, Quote)[2])))
    ELSE Ok(Strip(Remove(Lower(name), FederalProposals)))

\* the extraction taking the last part of the split and keeping the literal
ExtractKeepingLiteral(name) ==
    IF Quote \in {name[i] : i \in 1..Len(name)}
    THEN IF Len(Split(name, Quote)) < 2
         THEN Raise("IndexError", "list index out of range", <<>>)
         ELSE Ok(Strip(Lower(Split(name, Quote)[Len(Split(name, Quote))])))
    ELSE Ok(Strip(Lower(name)))

\* get_voting_summary, lines 157-161: split("'")[1] raises IndexError when
\* the split has a single part
ExtractSearchTerm(name) ==
    IF Quote \in {name[i] : i \in 1..Len(name)}
    THEN IF Len(Split(name, Quote)) < 2
         THEN Raise("IndexError", "list index out of range", <<>>)
         ELSE Ok(Strip(Lower(Split(name, Quote)[2])))
    ELSE Ok(Strip(Remove(Lower(name), FederalProposals)))

\* ------------------------------------------------------------ error strings
\* An error string is the literal prefix of its f-string, the interpolated
\* str(e) and the interpolated proposal_name (empty where the message has none).
Message(prefix, text, name) == [prefix |-> prefix, text |-> text, name |-> name]

None == <<>>
Some(v) == <<v>>

NotSuccessful == Message("API request was not successful", "", <<>>)
FailedList == Message("Failed to retrieve voting data list", "", <<>>)
NotInData == Message("Could not find voting results in the data", "", <<>>)
NoVotingData(name) == Message("No voting data found for proposal: ", "", name)
RequestError(text) == Message("Error making API request: ", text, <<>>)
ParseError(text) == Message("Error parsing JSON response: ", text, <<>>)
Unexpected(text) == Message("An unexpected error occurred: ", text, <<>>)

\* ------------------------------------------------------ exception classes
RequestExceptions == {"ConnectionError", "HTTPError", "requests.JSONDecodeError"}
JSONDecodeErrors == {"json.JSONDecodeError", "requests.JSONDecodeError"}

\* the except clauses of get_voting_data, tried in order, then "return result"
DataExcept(outcome) ==
    IF ~outcome.raised THEN [escaped |-> FALSE, result |-> outcome.value]
    ELSE IF outcome.exc \in RequestExceptions
    THEN [escaped |-> FALSE,
          result |-> [outcome.value EXCEPT !.error = Some(RequestError(outcome.msg))]]
    ELSE IF outcome.exc \in JSONDecodeErrors
    THEN [escaped |-> FALSE,
          result |-> [outcome.value EXCEPT !.error = Some(ParseError(outcome.msg))]]
    ELSE [escaped |-> FALSE,
          result |-> [outcome.value EXCEPT !.error = Some(Unexpected(outcome.msg))]]

\* the except clauses without the final "except Exception": anything that is
\* neither a RequestException nor a JSONDecodeError leaves the function
SummaryExceptNoCatchAll(outcome) ==
    IF ~outcome.raised THEN [escaped |-> FALSE, result |-> outcome.value]
    ELSE IF outcome.exc \in RequestExceptions
    THEN [escaped |-> FALSE,
          result |-> [outcome.value EXCEPT !.error = Some(RequestError(outcome.msg))]]
    ELSE IF outcome.exc \in JSONDecodeErrors
    THEN [escaped |-> FALSE,
          result |-> [outcome.value EXCEPT !.error = Some(ParseError(outcome.msg))]]
    ELSE [escaped |-> TRUE, result |-> outcome.value]

\* the except clauses with the JSONDecodeError clause tried first
SummaryExceptDecodeFirst(outcome) ==
    IF ~outcome.raised THEN [escaped |-> FALSE, result |-> outcome.value]
    ELSE IF outcome.exc \in JSONDecodeErrors
    THEN [escaped |-> FALSE,
          result |-> [outcome.value EXCEPT !.error = Some(ParseError(outcome.msg))]]
    ELSE IF outcome.exc \in RequestExceptions
    THEN [escaped |-> FALSE,
          result |-> [outcome.value EXCEPT !.error = Some(RequestError(outcome.msg))]]
    ELSE [escaped |-> FALSE,
          result |-> [outcome.value EXCEPT !.error = Some(Unexpected(outcome.msg))]]

\* the except clauses of get_voting_summary, tried in order, then "return result"
SummaryExcept(outcome) ==
    IF ~outcome.raised THEN [escaped |-> FALSE, result |-> outcome.value]
    ELSE IF outcome.exc \in RequestExceptions
    THEN [escaped |-> FALSE,
          result |-> [outcome.value EXCEPT !.error = Some(RequestError(outcome.msg))]]
    ELSE IF outcome.exc \in JSONDecodeErrors
    THEN [escaped |-> FALSE,
          result |-> [outcome.value EXCEPT !.error = Some(ParseError(outcome.msg))]]
    ELSE [escaped |-> FALSE,
          result |-> [outcome.value EXCEPT !.error = Some(Unexpected(outcome.msg))]]

\* ------------------------------------------------------- catalog responses
ResourceKeys == {"coverage", "description", "download_url", "format", "last_modified"}

\* One element of result.resources. keys = the keys the object has; has_en =
\* whether its description object has the key "en"; object = FALSE for an
\* element that is not a JSON object.
Resource(keys, en, url) ==
    [object |-> TRUE, keys |-> keys,
     coverage |-> IF "coverage" \in keys THEN "2024-03-03" ELSE "",
     has_en |-> "description" \in keys /\ en # None,
     description |-> IF "description" \in keys /\ en # None THEN en[1] ELSE <<>>,
     download_url |-> IF "download_url" \in keys THEN url ELSE "",
     format |-> IF "format" \in keys THEN "JSON" ELSE "",
     last_modified |-> IF "last_modified" \in keys THEN "2024-03-03T18:00:00" ELSE ""]

NotAnObject ==
    [object |-> FALSE, keys |-> {}, coverage |-> "", has_en |-> FALSE,
     description |-> <<>>, download_url |-> "", format |-> "", last_modified |-> ""]

ResourcePool ==
    { Resource(ResourceKeys, Some(<<"A", "b">>), "https://host/1.json"),
      Resource(ResourceKeys \ {"coverage"}, Some(<<"a", " ", "B">>), "https://host/2.json"),
      Resource(ResourceKeys \ {"format"}, Some(<<"B">>), "https://host/3.json"),
      Resource({}, None, ""),
      Resource(ResourceKeys \ {"last_modified"}, None, "https://host/4.json"),
      Resource(ResourceKeys \ {"download_url"}, Some(<<"A", "b">>), ""),
      NotAnObject }

SeqsUpTo(S, n) == UNION {[1..k -> S] : k \in 0..n}

CatalogFailures ==
    {"ConnectionError", "HTTPError", "json.JSONDecodeError", "requests.JSONDecodeError",
     "not_object", "no_success", "success_false", "no_result", "no_resources"}

Catalog(shape, resources) == [shape |-> shape, resources |-> resources]

CatalogResponses ==
    {Catalog(f, <<>>) : f \in CatalogFailures}
    \cup {Catalog("ok", rs) : rs \in SeqsUpTo(ResourcePool, MaxResources)}

\* data.get("success") in place of data["success"]: an absent flag reads as false
EnvelopeFlagOptional(resp, value) ==
    CASE resp.shape \in {"ConnectionError", "HTTPError"} ->
            Raise(resp.shape, resp.shape, value)
      [] resp.shape \in {"json.JSONDecodeError", "requests.JSONDecodeError"} ->
            Raise(resp.shape, "Expecting value", value)
      [] resp.shape = "not_object" ->
            Raise("AttributeError", "'list' object has no attribute 'get'", value)
      [] resp.shape \in {"no_success", "success_false"} -> Ok(FALSE)
      [] OTHER -> Ok(TRUE)

\* requests.get, raise_for_status, response.json(), then data["success"]:
\* the truth value of the flag, or the exception one of them raises.
Envelope(resp, value) ==
    CASE resp.shape \in {"ConnectionError", "HTTPError"} ->
            Raise(resp.shape, resp.shape, value)
      [] resp.shape \in {"json.JSONDecodeError", "requests.JSONDecodeError"} ->
            Raise(resp.shape, "Expecting value", value)
      [] resp.shape = "not_object" ->
            Raise("TypeError", "list indices must be integers or slices, not str", value)
      [] resp.shape = "no_success" -> Raise("KeyError", "'success'", value)
      [] resp.shape = "success_false" -> Ok(FALSE)
      [] OTHER -> Ok(TRUE)

\* data["result"]["resources"]
Resources(resp, value) ==
    CASE resp.shape = "no_result" -> Raise("KeyError", "'result'", value)
      [] resp.shape = "no_resources" -> Raise("KeyError", "'resources'", value)
      [] OTHER -> Ok(resp.resources)

\* ---------------------------------------------------------- get_voting_data
NoDate == "No date available"
NoDescription == <<"N", "o", " ", "d", "e", "s", "c", "r", "i", "p", "t", "i", "o", "n", " ", "a", "v", "a", "i", "l", "a", "b", "l", "e">>
NoURL == "No URL available"
UnknownFormat == "Unknown format"
UnknownModified == "Unknown"

\* resource.get(key, default)
Get(resource, key, default) ==
    IF key \in resource.keys THEN resource[key] ELSE default

\* resource.get("description", {}).get("en", default)
DescriptionEn(resource, default) ==
    IF resource.has_en THEN resource.description ELSE default

\* the dict of lines 64-70 with the default of last_modified used for format too
ResourceDataOneDefault(resource) ==
    [date |-> Get(resource, "coverage", NoDate),
     description |-> DescriptionEn(resource, NoDescription),
     download_url |-> Get(resource, "download_url", NoURL),
     format |-> Get(resource, "format", UnknownModified),
     last_modified |-> Get(resource, "last_modified", UnknownModified)]

\* the dict of lines 64-70
ResourceData(resource) ==
    [date |-> Get(resource, "coverage", NoDate),
     description |-> DescriptionEn(resource, NoDescription),
     download_url |-> Get(resource, "download_url", NoURL),
     format |-> Get(resource, "format", UnknownFormat),
     last_modified |-> Get(resource, "last_modified", UnknownModified)]

\* the for loop of lines 63-71; res is the result dict being filled
RECURSIVE AppendAll(_, _)
AppendAll(resources, res) ==
    IF resources = <<>> THEN Ok(res)
    ELSE IF ~Head(resources).object
    THEN Raise("AttributeError", "'str' object has no attribute 'get'", res)
    ELSE AppendAll(Tail(resources),
                   [res EXCEPT !.data = Append(@, ResourceData(Head(resources)))])

DataInitial == [success |-> FALSE, error |-> None, data |-> <<>>]

\* the try block of get_voting_data, lines 51-74
DataTry(resp) ==
    LET env == Envelope(resp, DataInitial) IN
    IF env.raised THEN env
    ELSE IF env.value
    THEN LET res == [DataInitial EXCEPT !.success = TRUE]
             rs == Resources(resp, res)
         IN IF rs.raised THEN rs ELSE AppendAll(rs.value, res)
    ELSE Ok([DataInitial EXCEPT !.error = Some(NotSuccessful)])

\* get_voting_data as a function of the catalog response
GetVotingData(resp) == DataExcept(DataTry(resp))

\* ------------------------------------------------------- detail responses
TitlePool ==
    { [langKey |-> "en", text |-> "Example"],
      [langKey |-> "de", text |-> "Beispiel"],
      [langKey |-> "fr", text |-> "Exemple"] }

\* keys of the payload (abstimmtag), of the first proposal (resultat,
\* vorlagenTitel, vorlageAngenommen) and of its national result
NationalKeys ==
    <<"stimmbeteiligungInProzent", "jaStimmenInProzent", "jaStimmenAbsolut",
      "neinStimmenAbsolut", "anzahlStimmberechtigte">>

DetailKeys ==
    {"abstimmtag", "resultat", "vorlagenTitel", "vorlageAngenommen"}
    \cup {NationalKeys[i] : i \in 1..Len(NationalKeys)}

DetailFailures ==
    {"ConnectionError", "HTTPError", "json.JSONDecodeError", "requests.JSONDecodeError",
     "not_object", "no_schweiz", "no_vorlagen", "empty_vorlagen"}

\* missing = the expected keys the payload lacks
Detail(shape, titles, missing) == [shape |-> shape, titles |-> titles, missing |-> missing]

DetailResponses ==
    {Detail(f, <<>>, {}) : f \in DetailFailures}
    \cup {Detail("ok", ts, {}) : ts \in SeqsUpTo(TitlePool, MaxTitles)}
    \cup {Detail("ok", ts, {k}) : ts \in SeqsUpTo(TitlePool, 1), k \in DetailKeys}

\* the value the payload holds under a key it has
DetailValue(key) ==
    CASE key = "abstimmtag" -> "20240303"
      [] key = "vorlageAngenommen" -> "true"
      [] key = "stimmbeteiligungInProzent" -> "45.5"
      [] key = "jaStimmenInProzent" -> "52.5"
      [] key = "jaStimmenAbsolut" -> "1050000"
      [] key = "neinStimmenAbsolut" -> "950000"
      [] key = "anzahlStimmberechtigte" -> "4400000"

\* ------------------------------------------------------- get_voting_summary
CatalogRequest ==
    [url |-> "https://ckan.opendata.swiss/api/3/action/package_show",
     id |-> "echtzeitdaten-zu-den-eidgenossischen-abstimmungen-gemeindestand-am-datum-der-abstimmung"]

DetailRequest(url) == [url |-> url, id |-> ""]

SummaryInitial == [success |-> FALSE, error |-> None, summary |-> None]

\* bool(resource) of a dict: an empty dict is false
Truthy(resource) == resource.keys # {}

\* the for loop of lines 165-175 from entry i on: the index of the first
\* resource whose lower-cased English description contains the term, 0 for
\* none (matching_resource stays None)
RECURSIVE Scan(_, _, _, _)
Scan(resources, term, i, value) ==
    IF i > Len(resources) THEN Ok(0)
    ELSE IF ~resources[i].object
    THEN Raise("AttributeError", "'str' object has no attribute 'get'", value)
    ELSE IF Contains(Lower(DescriptionEn(resources[i], <<>>)), term) THEN Ok(i)
    ELSE Scan(resources, term, i + 1, value)

\* A step of get_voting_summary ends by returning (next = "return", through
\* the except clauses when outcome.raised) or by issuing the detail request.
Step(next, outcome, term, match, url) ==
    [next |-> next, outcome |-> outcome, term |-> term, match |-> match, url |-> url]

\* lines 146-185: from the catalog response to the return or the detail request
SummaryCatalogTry(name, resp) ==
    LET env == Envelope(resp, SummaryInitial) IN
    IF env.raised THEN Step("return", env, None, 0, "")
    ELSE IF ~env.value
    THEN Step("return", Ok([SummaryInitial EXCEPT !.error = Some(FailedList)]), None, 0, "")
    ELSE
    LET ext == ExtractSearchTerm(name) IN
    IF ext.raised
    THEN Step("return", Raise(ext.exc, ext.msg, SummaryInitial), None, 0, "")
    ELSE
    LET term == ext.value
        rs == Resources(resp, SummaryInitial)
    IN
    IF rs.raised THEN Step("return", rs, Some(term), 0, "")
    ELSE
    LET found == Scan(rs.value, term, 1, SummaryInitial) IN
    IF found.raised THEN Step("return", found, Some(term), 0, "")
    ELSE IF found.value = 0 \/ ~Truthy(rs.value[found.value])
    THEN Step("return", Ok([SummaryInitial EXCEPT !.error = Some(NoVotingData(name))]),
              Some(term), found.value, "")
    ELSE IF "download_url" \notin rs.value[found.value].keys
    THEN Step("return", Raise("KeyError", "'download_url'", SummaryInitial),
              Some(term), found.value, "")
    ELSE Step("detail", Ok(SummaryInitial), Some(term), found.value,
              rs.value[found.value].download_url)

\* the comprehension keeping only the English and German titles
RECURSIVE TitlesEnDe(_)
TitlesEnDe(list) ==
    IF list = <<>> THEN <<>>
    ELSE LET init == TitlesEnDe(SubSeq(list, 1, Len(list) - 1))
             last == list[Len(list)]
         IN IF last.langKey \notin {"en", "de"} THEN init
            ELSE [k \in (DOMAIN init) \cup {last.langKey} |->
                     IF k = last.langKey THEN last.text ELSE init[k]]

\* {title['langKey']: title['text'] for title in vote_info['vorlagenTitel']}
RECURSIVE Titles(_)
Titles(list) ==
    IF list = <<>> THEN <<>>
    ELSE LET init == Titles(SubSeq(list, 1, Len(list) - 1))
             last == list[Len(list)]
         IN [k \in (DOMAIN init) \cup {last.langKey} |->
                IF k = last.langKey THEN last.text ELSE init[k]]

\* titles.get('en', titles.get('de', 'Title not available'))
Title(titles) ==
    IF "en" \in DOMAIN titles THEN titles["en"]
    ELSE IF "de" \in DOMAIN titles THEN titles["de"]
    ELSE "Title not available"

\* the subscriptions of the dict display of lines 198-208, in evaluation order
SummaryLookups ==
    <<"abstimmtag", "vorlageAngenommen">> \o NationalKeys

FirstMissing(resp) ==
    LET hit == {i \in 1..Len(SummaryLookups) : SummaryLookups[i] \in resp.missing}
    IN IF hit = {} THEN 0 ELSE CHOOSE i \in hit : \A j \in hit : i <= j

KeyErrorText(key) == "'" \o key \o "'"

\* lines 185-210: from the detail response to the end of the try block
SummaryDetailTry(resp) ==
    CASE resp.shape \in {"ConnectionError", "HTTPError"} ->
            Raise(resp.shape, resp.shape, SummaryInitial)
      [] resp.shape \in {"json.JSONDecodeError", "requests.JSONDecodeError"} ->
            Raise(resp.shape, "Expecting value", SummaryInitial)
      [] resp.shape \in {"not_object", "no_schweiz", "no_vorlagen"} ->
            Ok([SummaryInitial EXCEPT !.error = Some(NotInData)])
      [] resp.shape = "empty_vorlagen" ->
            Raise("IndexError", "list index out of range", SummaryInitial)
      [] OTHER ->
            IF "resultat" \in resp.missing
            THEN Raise("KeyError", "'resultat'", SummaryInitial)
            ELSE IF "vorlagenTitel" \in resp.missing
            THEN Raise("KeyError", "'vorlagenTitel'", SummaryInitial)
            ELSE
            LET titles == Titles(resp.titles)
                res == [SummaryInitial EXCEPT !.success = TRUE]
                miss == FirstMissing(resp)
            IN
            IF miss # 0
            THEN Raise("KeyError", KeyErrorText(SummaryLookups[miss]), res)
            ELSE Ok([res EXCEPT !.summary = Some(
                    [title |-> Title(titles),
                     date |-> DetailValue("abstimmtag"),
                     accepted |-> DetailValue("vorlageAngenommen"),
                     turnout |-> DetailValue("stimmbeteiligungInProzent"),
                     yes_percentage |-> DetailValue("jaStimmenInProzent"),
                     yes_votes |-> DetailValue("jaStimmenAbsolut"),
                     no_votes |-> DetailValue("neinStimmenAbsolut"),
                     eligible_voters |-> DetailValue("anzahlStimmberechtigte"),
                     all_titles |-> titles])])

\* ------------------------------------------------------------------ inputs
Words == { <<>>, <<" ", "A">> }

FederalProposalsTitle ==
    <<"F", "e", "d", "e", "r", "a", "l", " ", "p", "r", "o", "p", "o", "s", "a", "l", "s", ":">>

\* the two calls of the docstring (lines 96-97) and a name with the literal inside
FullFormatName ==
    <<"F", "e", "d", "e", "r", "a", "l", " ", "p", "r", "o", "p", "o", "s", "a", "l", "s", ":", " ", "1", ".", " ", "P", "o", "p", "u", "l", "a", "r", " ", "I", "n", "i", "t", "i", "a", "t", "i", "v", "e", " ", "'", "E", "x", "a", "m", "p", "l", "e", " ", "T", "i", "t", "l", "e", "'">>
SimpleFormatName ==
    <<"E", "x", "a", "m", "p", "l", "e", " ", "T", "i", "t", "l", "e">>
InnerLiteralName ==
    <<"A", " ", "f", "e", "d", "e", "r", "a", "l", " ", "p", "r", "o", "p", "o", "s", "a", "l", "s", ":", " ">>

\* the names with exactly k single quotes whose parts are words
RECURSIVE Quoted(_)
Quoted(k) ==
    IF k = 0 THEN Words
    ELSE {p \o <<Quote>> \o w : p \in Quoted(k - 1), w \in Words}

ProposalNames ==
    {FullFormatName, SimpleFormatName, InnerLiteralName}
    \cup {FederalProposalsTitle \o w : w \in Words}
    \cup UNION {Quoted(k) : k \in 0..MaxQuotes}

\* ----------------------------------------------------------- state machine
Operations == {"get_voting_data", "get_voting_summary"}

\* the state on entry to the try block: result holds the initial envelope
Init ==
    /\ op \in Operations
    /\ proposal_name \in IF op = "get_voting_summary" THEN ProposalNames ELSE {<<>>}
    /\ pc = "start"
    /\ requests = <<>>
    /\ catalog = None
    /\ detail = None
    /\ search_term = None
    /\ matching_resource = 0
    /\ result = IF op = "get_voting_data" THEN DataInitial ELSE SummaryInitial

\* requests.get(url, params=params), lines 53 and 146
RequestCatalog ==
    /\ pc = "start"
    /\ requests' = Append(requests, CatalogRequest)
    /\ pc' = "catalog"
    /\ UNCHANGED <<op, proposal_name, catalog, detail, search_term,
                   matching_resource, result>>

\* where control is after the except clauses
After(handled) == IF handled.escaped THEN "raised" ELSE "returned"

\* get_voting_data from the response to the return
DataResponse ==
    /\ pc = "catalog"
    /\ op = "get_voting_data"
    /\ \E resp \in CatalogResponses :
          LET handled == GetVotingData(resp) IN
          /\ catalog' = Some(resp)
          /\ result' = handled.result
          /\ pc' = After(handled)
    /\ UNCHANGED <<op, proposal_name, requests, detail, search_term, matching_resource>>

\* a second catalog request after a step that did not lead to the detail request
RequestsWithRetry(reqs, step) ==
    IF step.next = "detail" THEN Append(reqs, DetailRequest(step.url))
    ELSE Append(reqs, CatalogRequest)

\* requests.get(results_url), line 185: the only request after the first
NextRequests(reqs, step) ==
    IF step.next = "detail" THEN Append(reqs, DetailRequest(step.url)) ELSE reqs

\* get_voting_summary from the catalog response to the return or the detail request
SummaryCatalogResponse ==
    /\ pc = "catalog"
    /\ op = "get_voting_summary"
    /\ \E resp \in CatalogResponses :
          LET step == SummaryCatalogTry(proposal_name, resp)
              handled == SummaryExcept(step.outcome)
          IN
          /\ catalog' = Some(resp)
          /\ search_term' = step.term
          /\ matching_resource' = step.match
          /\ requests' = NextRequests(requests, step)
          /\ result' = handled.result
          /\ pc' = IF step.next = "detail" THEN "detail" ELSE After(handled)
    /\ UNCHANGED <<op, proposal_name, detail>>

\* get_voting_summary from the detail response to the return
SummaryDetailResponse ==
    /\ pc = "detail"
    /\ \E resp \in DetailResponses :
          LET handled == SummaryExcept(SummaryDetailTry(resp)) IN
          /\ detail' = Some(resp)
          /\ result' = handled.result
          /\ pc' = After(handled)
    /\ UNCHANGED <<op, proposal_name, requests, catalog, search_term, matching_resource>>

Next ==
    \/ RequestCatalog
    \/ DataResponse
    \/ SummaryCatalogResponse
    \/ SummaryDetailResponse

Spec == Init /\ [][Next]_vars

\* ================================================================== claims
Returned == pc = "returned"
Finished == pc \in {"returned", "raised"}
InData == op = "get_voting_data"
InSummary == op = "get_voting_summary"
\* the catalog response has been received and handled
CatalogSeen == catalog # None
DetailSeen == detail # None
CatalogShape == IF CatalogSeen THEN catalog[1].shape ELSE ""
CatalogList == IF CatalogSeen THEN catalog[1].resources ELSE <<>>
AllObjects == \A i \in 1..Len(CatalogList) : CatalogList[i].object

\* ---- C1
\* C1: every returned result of get_voting_data and get_voting_summary has
\* success = true with error null and the payload populated, or success =
\* false with a non-null error and the payload empty, also when the failure
\* is raised after the success flag was examined.
C1_EnvelopeExclusive ==
    Returned =>
        IF InData
        THEN IF result.success
             THEN result.error = None /\ Len(result.data) = Len(CatalogList)
             ELSE result.error # None /\ result.data = <<>>
        ELSE IF result.success
             THEN result.error = None /\ result.summary # None
             ELSE result.error # None /\ result.summary = None

\* ---- C2
\* C2: get_voting_data and get_voting_summary always end by returning the
\* envelope with its three keys; no exception leaves either function,
\* whatever the transport outcome, the response body and the proposal_name.
C2_NothingEscapes ==
    /\ pc # "raised"
    /\ InData => DOMAIN result = {"success", "error", "data"}
    /\ InSummary => DOMAIN result = {"success", "error", "summary"}

\* a KeyError of the detail payload was caught and reported by get_voting_summary
C2_Witness ==
    /\ InSummary /\ Returned /\ DetailSeen
    /\ result.error = Some(Unexpected("'resultat'"))

\* ---- C3
\* C3 as stated: a catalog response whose success flag is false or absent
\* makes get_voting_data return success = false, the fixed message
\* "API request was not successful" and an empty data list.
C3_FalseOrAbsentFixedMessage ==
    (InData /\ Returned /\ CatalogShape \in {"success_false", "no_success"}) =>
        result = [success |-> FALSE, error |-> Some(NotSuccessful), data |-> <<>>]

\* C3 amended: a success flag that is present and false gives success =
\* false, the fixed message and an empty list; an absent flag gives success =
\* false, an empty list and the unexpected-error message naming the key
\* 'success', which is neither the fixed nor the transport-failure message.
C3_FalseFixedAbsentUnexpected ==
    /\ (InData /\ Returned /\ CatalogShape = "success_false") =>
          result = [success |-> FALSE, error |-> Some(NotSuccessful), data |-> <<>>]
    /\ (InData /\ Returned /\ CatalogShape = "no_success") =>
          /\ result = [success |-> FALSE, error |-> Some(Unexpected("'success'")),
                       data |-> <<>>]
          /\ result.error[1].prefix \notin {NotSuccessful.prefix, RequestError("").prefix}
    /\ (InData /\ Returned /\ CatalogShape \in {"ConnectionError", "HTTPError"}) =>
          /\ result.error # None
          /\ result.error[1].prefix = RequestError("").prefix
          /\ result.error[1].prefix # NotSuccessful.prefix

C3_Witness == InData /\ Returned /\ CatalogShape = "no_success"

\* ---- C4
CatalogStepFailures ==
    {"ConnectionError", "HTTPError", "json.JSONDecodeError", "requests.JSONDecodeError",
     "success_false", "no_success"}

\* C4 as stated: when the catalog step of get_voting_summary fails (transport
\* failure, unparsable body, success flag false or absent) the call returns
\* success = false with exactly the error get_voting_data returns for the
\* same catalog response.
C4_CatalogErrorUnchanged ==
    (InSummary /\ Finished /\ CatalogShape \in CatalogStepFailures) =>
        /\ ~result.success
        /\ result.error = GetVotingData(catalog[1]).result.error

\* C4 amended: for a transport failure, an unparsable body or an absent
\* success flag get_voting_summary returns success = false with the same
\* error string as get_voting_data; for a success flag that is present and
\* false it returns its own fixed message "Failed to retrieve voting data
\* list", which differs from get_voting_data's.
C4_SameErrorExceptFalseFlag ==
    /\ (InSummary /\ Finished /\ CatalogShape \in CatalogStepFailures \ {"success_false"}) =>
          /\ ~result.success
          /\ result.error # None
          /\ result.error = GetVotingData(catalog[1]).result.error
    /\ (InSummary /\ Finished /\ CatalogShape = "success_false") =>
          /\ ~result.success
          /\ result.error = Some(FailedList)
          /\ result.error # GetVotingData(catalog[1]).result.error

C4_Witness ==
    /\ InSummary /\ Returned /\ CatalogShape = "requests.JSONDecodeError"
    /\ result.error = Some(RequestError("Expecting value"))

\* ---- C5
Expected(resource, key, sentinel) ==
    IF key \in resource.keys THEN resource[key] ELSE sentinel

QuotePositions(name) == {i \in 1..Len(name) : name[i] = Quote}
FirstQuote(name) == CHOOSE i \in QuotePositions(name) : \A j \in QuotePositions(name) : i <= j
SecondQuote(name) ==
    CHOOSE i \in QuotePositions(name) \ {FirstQuote(name)} :
        \A j \in QuotePositions(name) \ {FirstQuote(name)} : i <= j

\* s without its leading and trailing whitespace
Trimmed(s) ==
    LET inner == {i \in 1..Len(s) : s[i] \notin Whitespace} IN
    IF inner = {} THEN <<>>
    ELSE SubSeq(s, CHOOSE i \in inner : \A j \in inner : i <= j,
                   CHOOSE i \in inner : \A j \in inner : j <= i)

\* s lower-cased, character by character
LowerCased(s) ==
    [i \in 1..Len(s) |->
        IF \E k \in 1..26 : UpperLetters[k] = s[i]
        THEN LowerLetters[CHOOSE k \in 1..26 : UpperLetters[k] = s[i]]
        ELSE s[i]]

\* s with every occurrence of the literal cut out, leftmost first
RECURSIVE WithoutLiteral(_, _)
WithoutLiteral(s, lit) ==
    LET at == {i \in 1..(Len(s) - Len(lit) + 1) : SubSeq(s, i, i + Len(lit) - 1) = lit} IN
    IF at = {} THEN s
    ELSE LET i == CHOOSE i \in at : \A j \in at : i <= j IN
         SubSeq(s, 1, i - 1) \o WithoutLiteral(SubSeq(s, i + Len(lit), Len(s)), lit)

ExampleTitle ==
    <<"e", "x", "a", "m", "p", "l", "e", " ", "t", "i", "t", "l", "e">>

\* C6: the search term of a proposal_name with (at least two) single quotes
\* is the text between the first and the second quote, lower-cased and
\* trimmed, also with more than two quotes; without a quote it is the name
\* lower-cased, the literal "federal proposals:" removed, then trimmed. Both
\* documented call formats give "example title".
C6_SearchTerm ==
    (InSummary /\ search_term # None) =>
        /\ Cardinality(QuotePositions(proposal_name)) >= 2 =>
              search_term[1] =
                  Trimmed(LowerCased(SubSeq(proposal_name, FirstQuote(proposal_name) + 1,
                                            SecondQuote(proposal_name) - 1)))
        /\ QuotePositions(proposal_name) = {} =>
              search_term[1] =
                  Trimmed(WithoutLiteral(LowerCased(proposal_name), FederalProposals))
        /\ proposal_name \in {FullFormatName, SimpleFormatName} =>
              search_term[1] = ExampleTitle

\* the full format was given and the term between its quotes was extracted
C6_Witness ==
    /\ InSummary /\ proposal_name = FullFormatName
    /\ search_term = Some(ExampleTitle)

\* ---- C9
OneQuote == Cardinality(QuotePositions(proposal_name)) = 1
\* the catalog step got as far as the search-term extraction
ExtractionReached ==
    InSummary /\ CatalogSeen
    /\ CatalogShape \in {"ok", "no_result", "no_resources"}

\* C9 as stated: with exactly one single quote in proposal_name the
\* extraction indexes out of range and the call ends in the unexpected-error
\* outcome without a search term and without a scan.
C9_OneQuoteIndexError ==
    (ExtractionReached /\ OneQuote) =>
        /\ search_term = None
        /\ Returned
        /\ result.error = Some(Unexpected("list index out of range"))

\* C9 amended: with exactly one single quote the split has two parts and
\* index 1 exists: the search term is the text after the quote, lower-cased
\* and trimmed, no IndexError is reported, and the call goes on to the scan.
C9_OneQuoteTakesRest ==
    (ExtractionReached /\ OneQuote) =>
        /\ search_term =
              Some(Trimmed(LowerCased(SubSeq(proposal_name, FirstQuote(proposal_name) + 1,
                                             Len(proposal_name)))))
        /\ ~DetailSeen => result.error # Some(Unexpected("list index out of range"))
        /\ (CatalogShape = "ok" /\ AllObjects /\ Len(requests) = 1 /\ Returned
            /\ matching_resource = 0) =>
              result.error = Some(NoVotingData(proposal_name))

\* a name with one quote whose scan found a resource and requested its detail
C9_Witness ==
    /\ ExtractionReached /\ OneQuote
    /\ search_term = Some(<<"a">>)
    /\ pc = "detail" /\ matching_resource = 2

\* ---- C7
\* the entries whose lower-cased English description contains the term
Matches ==
    {i \in 1..Len(CatalogList) :
        \E k \in 0..Len(CatalogList[i].description) :
            StartsWith(SubSeq(LowerCased(CatalogList[i].description), k + 1,
                              Len(CatalogList[i].description)), search_term[1])}

\* the scan ran over resources that are all objects
Scanned == InSummary /\ CatalogShape = "ok" /\ AllObjects /\ search_term # None

NotFoundReturned ==
    /\ Returned /\ ~result.success
    /\ result.error = Some(NoVotingData(proposal_name))
    /\ Len(requests) = 1

\* C7: the resource whose download_url is fetched is the lowest-index entry
\* whose lower-cased English description contains the search term (a missing
\* description counting as empty); if and only if no entry matches the call
\* returns success = false with an error holding the unmodified
\* proposal_name and makes no detail request.
C7_FirstMatchOrNotFound ==
    Scanned =>
        /\ Len(requests) = 2 =>
              /\ Matches # {}
              /\ \A i \in Matches : matching_resource <= i
              /\ matching_resource \in Matches
              /\ requests[2] = DetailRequest(CatalogList[matching_resource].download_url)
        /\ (Matches = {}) <=> NotFoundReturned

\* ---- C8
TitleList == IF DetailSeen THEN detail[1].titles ELSE <<>>
LangKeys == {TitleList[i].langKey : i \in 1..Len(TitleList)}
SummaryBuilt == InSummary /\ Returned /\ result.success /\ result.summary # None

\* C8 as stated: whenever get_voting_summary returns success = true the
\* all_titles mapping of the summary is non-empty, also for a detail payload
\* whose first proposal has an empty title list.
C8_TitlesNonEmpty ==
    SummaryBuilt => DOMAIN result.summary[1].all_titles # {}

\* C8 amended: whenever get_voting_summary returns success = true with a
\* summary, all_titles has exactly the language keys of the first proposal's
\* title list, each with the text of the last entry of that language; it is
\* non-empty exactly when the title list is non-empty, and an empty title
\* list gives success = true, an empty all_titles and the sentinel title.
C8_TitlesMirrorList ==
    SummaryBuilt =>
        LET titles == result.summary[1].all_titles IN
        /\ DOMAIN titles = LangKeys
        /\ \A k \in LangKeys :
              \E i \in 1..Len(TitleList) :
                  /\ TitleList[i].langKey = k
                  /\ titles[k] = TitleList[i].text
                  /\ \A j \in (i + 1)..Len(TitleList) : TitleList[j].langKey # k
        /\ (DOMAIN titles # {}) <=> (TitleList # <<>>)
        /\ TitleList = <<>> => result.summary[1].title = "Title not available"

\* success with a summary built from an empty title list
C8_Witness ==
    /\ SummaryBuilt /\ TitleList = <<>>
    /\ DOMAIN result.summary[1].all_titles = {}

\* ---- C10
\* C10: the requests of get_voting_summary are a prefix of [catalog request,
\* detail request]: at most two, the catalog request first, the detail
\* request only after a catalog response with a true success flag and a
\* matched resource, and none after a step has failed; get_voting_data
\* issues exactly one request.
C10_RequestPrefix ==
    /\ Len(requests) <= 2
    /\ pc # "start" => (Len(requests) >= 1 /\ requests[1] = CatalogRequest)
    /\ InData => Len(requests) <= 1
    /\ Len(requests) = 2 =>
          /\ InSummary
          /\ CatalogShape = "ok"
          /\ matching_resource \in 1..Len(CatalogList)
          /\ requests[2] = DetailRequest(CatalogList[matching_resource].download_url)
          /\ requests[2] # CatalogRequest
    /\ (InSummary /\ Finished /\ ~DetailSeen) => Len(requests) = 1
    /\ (InSummary /\ pc = "detail") => (Len(requests) = 2 /\ result.error = None)

\* the detail step failed after both requests and no third one followed
C10_Witness ==
    /\ InSummary /\ Returned /\ Len(requests) = 2
    /\ result.error = Some(RequestError("HTTPError"))

====
